---- MODULE Spec2Model ----
(***************************************************************************)
(* Model of the request handlers of daemons/based/based_messages.c         *)
(* (pacemaker-based): the primary/secondary role flag, the resync counter  *)
(* and the handlers that read or write them.  Each action is one handler   *)
(* call, run to completion.  The primitives of the document engine and the *)
(* cluster layer that the handlers call (cib_process_diff,                 *)
(* cib_process_replace, update_validation, cib_process_upgrade,            *)
(* cib_legacy_mode, the membership cache) are outside this file: what they *)
(* return is chosen nondeterministically at the place of the call.         *)
(***************************************************************************)
EXTENDS Integers, Sequences, FiniteSets, TLC

VARIABLES
    based_is_primary,   \* bool based_is_primary               (line 38)
    sync_in_progress,   \* static int sync_in_progress         (line 114)
    the_cib,            \* xmlNode *the_cib                    (line 40)
    ignored_diffs,      \* history: diffs ignored since the counter was last
                        \* set to 0 or to 1
    last                \* history: the last handler call, its inputs, the
                        \* state it found and everything it did

vars == <<based_is_primary, sync_in_progress, the_cib, ignored_diffs, last>>

(***************************************************************************)
(* Bounds of the model.                                                    *)
(***************************************************************************)
MaxHosts == 1       \* peers that can appear as the source of a request
MaxSchema == 2      \* index of the newest known schema

(***************************************************************************)
(* Program constants and the values of the inputs.                         *)
(***************************************************************************)
MAX_DIFF_RETRY == 5

NULL == "NULL"

NodeNames == <<"node1", "node2", "node3">>

Hosts == {NodeNames[i] : i \in 1..MaxHosts}

\* what crm_element_value(req, PCMK__XA_SRC) can yield
SrcValues == Hosts \cup {NULL}

\* the options word, as the set of flags that are set in it
OptionSets == SUBSET {"cib_force_diff"}

\* *result_cib as a primitive leaves it: absent, or some document
ResultCibs == {NULL, "doc"}

\* *result_cib when the handler and the primitives it called did not write it
UNTOUCHED == "untouched"

\* the status of a call of a function that returns nothing
VOID == "void"

\* what the diff-apply primitive can return
DiffRcs == {"pcmk_ok", "-pcmk_err_diff_resync", "-pcmk_err_diff_failed",
            "-pcmk_err_old_data"}

\* what the replace primitive can return
ReplaceRcs == {"pcmk_ok", "-pcmk_err_old_data"}

\* the element name of a replace request's input
InputNames == {"cib", "configuration"}

\* The record of one handler call: the state it found, its inputs, what the
\* primitives it called returned, and what it did.
Call(o, in, ext, r, rcib, snt, prims, lg) ==
    [op |-> o,
     pre_sync |-> sync_in_progress,
     pre_primary |-> based_is_primary,
     pre_cib |-> the_cib,
     in |-> in,
     ext |-> ext,
     rc |-> r,
     result_cib |-> rcib,
     sent |-> snt,
     prims |-> prims,
     log |-> lg]

\* a call of a primitive of the document engine
Prim(fn, req) == [fn |-> fn, req |-> req]

Init ==
    /\ based_is_primary = FALSE
    /\ sync_in_progress = 0
    /\ the_cib = NULL
    /\ ignored_diffs = 0
    /\ last = [op |-> "none", pre_sync |-> 0, pre_primary |-> FALSE,
               pre_cib |-> NULL,
               in |-> <<>>, ext |-> <<>>, rc |-> "pcmk_ok",
               result_cib |-> UNTOUCHED, sent |-> <<>>, prims |-> <<>>,
               log |-> <<>>]

(***************************************************************************)
(* cib_process_readwrite                                                   *)
(***************************************************************************)
RoleOps == {"cib_isprimary", "cib_primary", "cib_secondary"}

\* faulty variant: "become primary" flips the role
RoleAfter_Toggle(op, primary) ==
    IF op = "cib_isprimary" THEN primary
    ELSE IF op = "cib_primary" THEN ~primary
    ELSE FALSE

\* the value of based_is_primary after a role request
RoleAfter(op, primary) ==
    IF op = "cib_isprimary" THEN primary
    ELSE IF op = "cib_primary" THEN TRUE
    ELSE FALSE

\* what the call logs above trace level
RoleLog(op, primary) ==
    IF op = "cib_isprimary" THEN <<>>
    ELSE IF op = "cib_primary"
         THEN (IF ~primary THEN <<"info: We are now in R/W mode">>
               ELSE <<"debug: We are still in R/W mode">>)
    ELSE IF primary THEN <<"info: We are now in R/O mode">>
    ELSE <<>>

\* faulty variant: the query succeeds whatever the role
RoleRc_AlwaysOk(op, primary) == "pcmk_ok"

\* lines 82-93, 108: the status of a role request
RoleRc(op, primary) ==
    IF op = "cib_isprimary" /\ ~primary THEN "-EPERM" ELSE "pcmk_ok"

cib_process_readwrite(op) ==
    /\ based_is_primary' = RoleAfter(op, based_is_primary)
    /\ last' = Call("readwrite", [op |-> op], <<>>,
                    RoleRc(op, based_is_primary), UNTOUCHED, <<>>, <<>>,
                    RoleLog(op, based_is_primary))
    /\ UNCHANGED <<sync_in_progress, the_cib, ignored_diffs>>

(***************************************************************************)
(* send_sync_request                                                       *)
(***************************************************************************)
\* the "sync-me" message
SyncMe(alone) ==
    [name |-> "sync-me",
     t |-> "cib",
     cib_op |-> "cib_sync_one",
     cib_delegated_from |-> IF alone THEN "localhost" ELSE "uname"]

\* send_cluster_message(peer, crm_msg_cib, msg, ordered); peer NULL = all
Send(peer, msg, ordered) ==
    [peer |-> peer, class |-> "crm_msg_cib", msg |-> msg, ordered |-> ordered]

\* faulty variant: a request made while one is outstanding keeps the counter
SyncRequested_KeepIfSet(sip) == IF sip = 0 THEN 1 ELSE sip

\* the value send_sync_request leaves in sync_in_progress
SyncRequested(sip) == 1

\* the one message send_sync_request sends
SyncRequestSends(host, alone) == <<Send(host, SyncMe(alone), FALSE)>>

SyncRequestLog(host) ==
    <<IF host # NULL THEN "info: Requesting re-sync from host"
      ELSE "info: Requesting re-sync from all peers">>

send_sync_request(host) ==
    \E stand_alone \in BOOLEAN, send_ok \in BOOLEAN :
        /\ sync_in_progress' = SyncRequested(sync_in_progress)
        /\ ignored_diffs' = 0
        /\ last' = Call("send_sync_request", [host |-> host],
                        [stand_alone |-> stand_alone, send_ok |-> send_ok],
                        VOID, UNTOUCHED,
                        SyncRequestSends(host, stand_alone), <<>>,
                        SyncRequestLog(host))
        /\ UNCHANGED <<based_is_primary, the_cib>>

(***************************************************************************)
(* cib_server_process_diff                                                 *)
(***************************************************************************)
\* faulty variant: the ceiling is compared one too high
ResetIfOverCeiling_OffByOne(sip) ==
    IF sip > MAX_DIFF_RETRY + 1 THEN 0 ELSE sip

\* faulty variant: every diff clears the counter
ResetIfOverCeiling_Always(sip) == 0

\* lines 297-302: give up waiting once the counter is above the ceiling
ResetIfOverCeiling(sip) == IF sip > MAX_DIFF_RETRY THEN 0 ELSE sip

\* faulty variant: only the first diff after a request is ignored
IgnoreDiff_OnlyFirst(sip, primary) == sip = 1 /\ ~primary

\* faulty variant: the role is not looked at
IgnoreDiff_AnyRole(sip, primary) == sip # 0

\* line 305: the diff is ignored
IgnoreDiff(sip, primary) == sip # 0 /\ ~primary

\* faulty variant: a primary asks for a resync too
DiffFollowUp_ResyncAnyRole(rc, primary, legacy) ==
    IF rc = "-pcmk_err_diff_resync" THEN "resync"
    ELSE IF rc # "pcmk_ok" /\ ~primary /\ legacy THEN "refresh"
    ELSE "asis"

\* faulty variant: a failed update is refreshed whatever the role
DiffFollowUp_RefreshAnyRole(rc, primary, legacy) ==
    IF rc = "-pcmk_err_diff_resync" /\ ~primary THEN "resync"
    ELSE IF rc = "-pcmk_err_diff_resync" THEN "downgrade"
    ELSE IF rc # "pcmk_ok" /\ legacy THEN "refresh"
    ELSE "asis"

\* faulty variant: the role test of the resync branch is inverted
DiffFollowUp_ResyncPrimaryOnly(rc, primary, legacy) ==
    IF rc = "-pcmk_err_diff_resync" /\ primary THEN "resync"
    ELSE IF rc = "-pcmk_err_diff_resync" THEN "downgrade"
    ELSE IF rc # "pcmk_ok" /\ ~primary /\ legacy THEN "refresh"
    ELSE "asis"

\* lines 329-348: what follows the diff-apply primitive's status
DiffFollowUp(rc, primary, legacy) ==
    IF rc = "-pcmk_err_diff_resync" /\ ~primary THEN "resync"
    ELSE IF rc = "-pcmk_err_diff_resync" THEN "downgrade"
    ELSE IF rc # "pcmk_ok" /\ ~primary /\ legacy THEN "refresh"
    ELSE "asis"

\* the status the handler returns after the primitive returned rc
DiffRc(rc, follow) ==
    IF follow = "downgrade" THEN "-pcmk_err_diff_failed" ELSE rc

DiffLog(follow, options) ==
    IF follow = "downgrade" /\ "cib_force_diff" \in options
    THEN <<"warn: Not requesting full refresh in R/W mode">>
    ELSE IF follow = "refresh"
    THEN <<"warn: Requesting full CIB refresh because update failed">>
         \o SyncRequestLog(NULL)
    ELSE IF follow = "resync" THEN SyncRequestLog(NULL)
    ELSE <<>>

cib_server_process_diff(options) ==
    LET sip == ResetIfOverCeiling(sync_in_progress) IN
    /\ UNCHANGED <<based_is_primary, the_cib>>
    /\ IF IgnoreDiff(sip, based_is_primary)
       THEN /\ sync_in_progress' = sip + 1
            /\ ignored_diffs' = ignored_diffs + 1
            /\ last' = Call("diff", [options |-> options], <<>>,
                            "-pcmk_err_diff_resync", UNTOUCHED, <<>>, <<>>,
                            <<"notice: Not applying diff (sync in progress)">>)
       ELSE \E d_rc \in DiffRcs, d_rcib \in ResultCibs, legacy \in BOOLEAN :
              LET follow == DiffFollowUp(d_rc, based_is_primary, legacy)
                  asks == follow \in {"resync", "refresh"}
              IN
              \E stand_alone \in (IF asks THEN BOOLEAN ELSE {FALSE}),
                 send_ok \in (IF asks THEN BOOLEAN ELSE {TRUE}) :
                /\ sync_in_progress' = IF asks THEN SyncRequested(sip) ELSE sip
                /\ ignored_diffs' = IF asks \/ sip = 0 THEN 0 ELSE ignored_diffs
                /\ last' = Call("diff", [options |-> options],
                                [rc |-> d_rc, result_cib |-> d_rcib,
                                 legacy |-> legacy, stand_alone |-> stand_alone,
                                 send_ok |-> send_ok],
                                DiffRc(d_rc, follow),
                                IF asks THEN NULL ELSE d_rcib,
                                IF asks THEN SyncRequestSends(NULL, stand_alone)
                                ELSE <<>>,
                                <<Prim("cib_process_diff", NULL)>>,
                                DiffLog(follow, options))

(***************************************************************************)
(* cib_process_replace_svr                                                 *)
(***************************************************************************)
\* faulty variant: any successful replace clears the counter
ReplaceClears_AnySuccess(rc, input_name) == rc = "pcmk_ok"

\* line 361: the replace clears the resync counter
ReplaceClears(rc, input_name) == rc = "pcmk_ok" /\ input_name = "cib"

cib_process_replace_svr(input_name) ==
    \E r_rc \in ReplaceRcs, r_rcib \in ResultCibs :
        LET clears == ReplaceClears(r_rc, input_name) IN
        /\ sync_in_progress' = IF clears THEN 0 ELSE sync_in_progress
        /\ ignored_diffs' = IF clears THEN 0 ELSE ignored_diffs
        /\ last' = Call("replace", [input |-> input_name],
                        [rc |-> r_rc, result_cib |-> r_rcib], r_rc, r_rcib,
                        <<>>, <<Prim("cib_process_replace", NULL)>>, <<>>)
        /\ UNCHANGED <<based_is_primary, the_cib>>

(***************************************************************************)
(* cib_process_upgrade_server                                              *)
(***************************************************************************)
\* the known schemas, oldest first; schema version v is SchemaNames[v + 1]
SchemaNames == <<"pacemaker-1.0", "pacemaker-2.0", "pacemaker-3.0",
                 "pacemaker-3.1", "pacemaker-3.2">>

SchemaVersions == 0..MaxSchema

\* get_schema_name(version), called at line 228
get_schema_name(version) ==
    IF version \in SchemaVersions THEN SchemaNames[version + 1] ELSE "unknown"

\* get_schema_version(name), called at line 216
get_schema_version(name) ==
    IF \E v \in SchemaVersions : SchemaNames[v + 1] = name
    THEN CHOOSE v \in SchemaVersions : SchemaNames[v + 1] = name
    ELSE -1

\* what the validate-with attribute of the live document can be
ValidateWith == {NULL, "bogus"} \cup {get_schema_name(v) : v \in SchemaVersions}

\* lines 204-217: current_version
CurrentVersion(value) == IF value # NULL THEN get_schema_version(value) ELSE 0

\* what update_validation can return
ValidationRcs == {"pcmk_ok", "-pcmk_err_schema_validation"}

\* what cib_process_upgrade can return
UpgradeRcs == {"pcmk_ok", "-pcmk_err_schema_validation"}

\* crm_element_value(req, PCMK__XA_CIB_CLIENTID)
ClientIds == {"client1"}

CallIds == {"1"}

CallOpts == {"0"}

\* the upgrade requests: F_CIB_SCHEMA_MAX is present in phase 2 only
UpgradeReqs ==
    [src : SrcValues,
     cib_schema_max : {NULL, get_schema_name(MaxSchema)},
     cib_clientid : ClientIds,
     cib_callopt : CallOpts,
     cib_callid : CallIds]

\* faulty variant: the maximum-schema field is not looked at
IsPhase2_Never(req) == FALSE

\* line 194: the request is the DC's re-broadcast
IsPhase2(req) == req.cib_schema_max # NULL

\* line 220: a newer schema was found
NewerSchema(new_version, current_version) == new_version > current_version

\* lines 221-232: the message that carries the upgrade
UpgradeMsg(req, new_version) ==
    [name |-> "cib_process_upgrade_server",
     t |-> "cib",
     cib_op |-> "cib_upgrade",
     cib_schema_max |-> get_schema_name(new_version),
     cib_delegated_from |-> req.src,
     cib_clientid |-> req.cib_clientid,
     cib_callopt |-> req.cib_callopt,
     cib_callid |-> req.cib_callid]

\* faulty variant: the role is not looked at
UpgradeDirect_LegacyOnly(legacy, primary) == legacy

\* faulty variant: the validation's status is kept
VerifiedRc_KeepValidation(v_rc) == v_rc

\* line 223: the status once a newer schema was found
VerifiedRc(v_rc) == "pcmk_ok"

\* line 234: the upgrade is applied here instead of being broadcast
UpgradeDirect(legacy, primary) == legacy /\ primary

\* faulty variant: the validation's own error is overwritten
UnchangedRc_Always(v_rc) == "-pcmk_err_schema_unchanged"

\* lines 244-246: the status when no newer schema was found
UnchangedRc(v_rc) ==
    IF v_rc = "pcmk_ok" THEN "-pcmk_err_schema_unchanged" ELSE v_rc

\* line 248: the request is rejected
Rejected(rc) == rc # "pcmk_ok"

\* faulty variant: the reply is not marked as a reply
RejectMsg_NoReplyMarker(req, rc) ==
    [name |-> "cib_process_upgrade_server",
     t |-> "cib",
     cib_op |-> "cib_upgrade",
     cib_delegated_from |-> req.src,
     cib_isreplyto |-> NULL,
     cib_clientid |-> req.cib_clientid,
     cib_callopt |-> req.cib_callopt,
     cib_callid |-> req.cib_callid,
     cib_upgrade_rc |-> rc]

\* lines 260-269: the reply that tells the origin of the rejection
RejectMsg(req, rc) ==
    [name |-> "cib_process_upgrade_server",
     t |-> "cib",
     cib_op |-> "cib_upgrade",
     cib_delegated_from |-> req.src,
     cib_isreplyto |-> req.src,
     cib_clientid |-> req.cib_clientid,
     cib_callopt |-> req.cib_callopt,
     cib_callid |-> req.cib_callid,
     cib_upgrade_rc |-> rc]

\* lines 248-276, given the status rc reached at line 247
UpgradeReject(req, ext, rc, rcib, snt, prims, lg) ==
    IF ~Rejected(rc)
    THEN last' = Call("upgrade", [req |-> req],
                      ext, rc, rcib, snt, prims, lg)
    ELSE \E found \in (IF req.src = NULL THEN {FALSE} ELSE BOOLEAN) :
           IF ~found
           THEN last' = Call("upgrade", [req |-> req],
                             ext @@ [found |-> FALSE], rc, rcib, snt, prims,
                             lg \o <<"info: Rejecting upgrade request">>)
           ELSE \E send_ok \in BOOLEAN :
                  last' = Call("upgrade",
                               [req |-> req],
                               ext @@ [found |-> TRUE, send_ok |-> send_ok],
                               rc, rcib,
                               snt \o <<Send(req.src, RejectMsg(req, rc), TRUE)>>,
                               prims,
                               lg \o <<"info: Rejecting upgrade request">>
                                  \o (IF send_ok THEN <<>>
                                      ELSE <<"warn: Could not send CIB upgrade result">>))

cib_process_upgrade_server(req) ==
    /\ UNCHANGED <<based_is_primary, sync_in_progress, the_cib, ignored_diffs>>
    /\ IF IsPhase2(req)
       THEN \E up_rc \in UpgradeRcs, up_rcib \in ResultCibs :
              last' = Call("upgrade", [req |-> req],
                           [phase |-> 2, up_rc |-> up_rc], up_rc, up_rcib,
                           <<>>, <<Prim("cib_process_upgrade", req)>>, <<>>)
       ELSE \E value \in ValidateWith, v_rc \in ValidationRcs,
               new_version \in SchemaVersions :
              LET current_version == CurrentVersion(value)
                  ext == [phase |-> 1, value |-> value, v_rc |-> v_rc,
                          new_version |-> new_version]
                  up == UpgradeMsg(req, new_version)
                  verified == <<"notice: Upgrade request verified">>
              IN
              IF NewerSchema(new_version, current_version)
              THEN \E legacy \in BOOLEAN :
                     IF UpgradeDirect(legacy, based_is_primary)
                     THEN \E up_rc \in UpgradeRcs, up_rcib \in ResultCibs :
                            UpgradeReject(req,
                                ext @@ [legacy |-> legacy, up_rc |-> up_rc],
                                up_rc, up_rcib, <<>>,
                                <<Prim("cib_process_upgrade", up)>>, verified)
                     ELSE \E bcast_ok \in BOOLEAN :
                            UpgradeReject(req,
                                ext @@ [legacy |-> legacy, bcast_ok |-> bcast_ok],
                                VerifiedRc(v_rc), UNTOUCHED,
                                <<Send(NULL, up, FALSE)>>, <<>>, verified)
              ELSE UpgradeReject(req, ext, UnchangedRc(v_rc),
                                 UNTOUCHED, <<>>, <<>>, <<>>)

(***************************************************************************)
(* cib_process_shutdown_req                                                *)
(***************************************************************************)
\* faulty variant: the shutdown flag is looked at before the reply marker
ShutdownOutcome_FlagFirst(is_reply, flag) ==
    IF ~flag THEN "mistaken"
    ELSE IF ~is_reply THEN "announced"
    ELSE "acknowledged"

\* lines 51-63: what the handler does with a shutdown message; is_reply is
\* whether PCMK__XA_CIB_ISREPLYTO is present, flag is cib_shutdown_flag
ShutdownOutcome(is_reply, flag) ==
    IF ~is_reply THEN "announced"
    ELSE IF ~flag THEN "mistaken"
    ELSE "acknowledged"

ShutdownRc(outcome) == IF outcome = "mistaken" THEN "-EINVAL" ELSE "pcmk_ok"

ShutdownLog(outcome) ==
    IF outcome = "announced"
    THEN <<"info: Peer is requesting to shut down">>
    ELSE IF outcome = "mistaken"
    THEN <<"err: Peer mistakenly thinks we wanted to shut down">>
    ELSE <<"info: Peer has acknowledged our shutdown request">>

cib_process_shutdown_req(src, is_reply) ==
    \E flag \in (IF is_reply THEN BOOLEAN ELSE {FALSE}) :
        LET outcome == ShutdownOutcome(is_reply, flag) IN
        /\ last' = Call("shutdown", [src |-> src, is_reply |-> is_reply],
                        [cib_shutdown_flag |-> flag], ShutdownRc(outcome),
                        UNTOUCHED, <<>>,
                        IF outcome = "acknowledged"
                        THEN <<Prim("terminate_cib", NULL)>> ELSE <<>>,
                        ShutdownLog(outcome))
        /\ UNCHANGED <<based_is_primary, sync_in_progress, the_cib,
                       ignored_diffs>>

(***************************************************************************)
(* The document and its digest                                             *)
(***************************************************************************)
\* the documents the daemon can hold once it has loaded one
Docs == {"cib1", "cib2"}

\* calculate_xml_versioned_digest(the_cib, FALSE, TRUE, CRM_FEATURE_SET)
Digest(cib) == <<"digest", cib, "CRM_FEATURE_SET">>

\* the daemon activates a document: the_cib is assigned outside this file
ActivateCib(doc) ==
    /\ the_cib' = doc
    /\ last' = Call("activate", [doc |-> doc], <<>>, VOID, UNTOUCHED, <<>>,
                    <<>>, <<>>)
    /\ UNCHANGED <<based_is_primary, sync_in_progress, ignored_diffs>>

(***************************************************************************)
(* cib_process_ping                                                        *)
(***************************************************************************)
PingIds == {"1", "2"}

\* lines 152-166: the document detail added to the answer
PingCallData(cib, tracing) ==
    IF tracing THEN cib
    ELSE IF cib # NULL THEN <<"shallow", cib>>
    ELSE NULL

\* faulty variant: the digest is taken over the request too
PingAnswer_DigestOfRequest(cib, seq, tracing) ==
    [name |-> "ping-response",
     crm_feature_set |-> "CRM_FEATURE_SET",
     digest |-> Digest(<<cib, seq>>),
     cib_ping_id |-> seq,
     cib_calldata |-> PingCallData(cib, tracing)]

\* lines 143-150: the answer
PingAnswer(cib, seq, tracing) ==
    [name |-> "ping-response",
     crm_feature_set |-> "CRM_FEATURE_SET",
     digest |-> Digest(cib),
     cib_ping_id |-> seq,
     cib_calldata |-> PingCallData(cib, tracing)]

cib_process_ping(src, seq, tracing) ==
    /\ last' = Call("ping", [src |-> src, seq |-> seq],
                    [tracing |-> tracing], "pcmk_ok", UNTOUCHED, <<>>, <<>>,
                    <<"info: Reporting our current digest">>)
                 @@ [answer |-> PingAnswer(the_cib, seq, tracing)]
    /\ UNCHANGED <<based_is_primary, sync_in_progress, the_cib, ignored_diffs>>

(***************************************************************************)
(* sync_our_cib, cib_process_sync, cib_process_sync_one                    *)
(***************************************************************************)
\* lines 379-398: the fields cib_msg_copy copies
field_list ==
    {"t", "cib_clientid", "cib_callopt", "cib_callid", "cib_op",
     "cib_isreplyto", "cib_section", "cib_host", "cib_rc",
     "cib_delegated_from", "cib_object", "cib_object_type", "cib_timeout",
     "cib_update", "cib_clientname", "cib_user", "cib_notify_type",
     "cib_notify_activate"}

\* lines 376-414; a field that is absent has the value NULL
cib_msg_copy(msg) ==
    [f \in field_list \cap DOMAIN msg |-> msg[f]]

\* crm_xml_add(xml, f, v)
SetField(xml, f, v) ==
    [g \in DOMAIN xml \cup {f} |-> IF g = f THEN v ELSE xml[g]]

\* xml_remove_prop(xml, f)
RemoveField(xml, f) == [g \in DOMAIN xml \ {f} |-> xml[g]]

\* the sync requests: src is the peer that asks, cib_host the destination
SyncReqs(op) ==
    [src : SrcValues,
     t : {"cib"},
     cib_op : {op},
     cib_host : SrcValues,
     cib_callid : CallIds]

\* faulty variant: the source host is not required
SyncInvalid_DocOnly(cib, all, host) == cib = NULL

\* lines 426-427: the request cannot be served
SyncInvalid(cib, all, host) == cib = NULL \/ ~(all \/ host # NULL)

\* lines 431-451: the replace message that carries the document
ReplaceRequest(request, all, cib) ==
    LET host == request.src
        r0 == cib_msg_copy(request)
        r1 == IF host # NULL THEN SetField(r0, "cib_isreplyto", host) ELSE r0
        r2 == IF all THEN RemoveField(r1, "cib_host") ELSE r1
        r3 == SetField(r2, "cib_op", "cib_replace")
        r4 == SetField(r3, "cib_original_op", request.cib_op)
        r5 == SetField(r4, "cib_update", "true")
        r6 == SetField(r5, "crm_feature_set", "CRM_FEATURE_SET")
        r7 == SetField(r6, "digest", Digest(cib))
    IN SetField(r7, "cib_calldata", cib)

\* lines 453-455: the peer the message goes to; NULL = all peers
SyncPeer(all, host) == IF all THEN NULL ELSE host

\* faulty variant: the result of the send is not looked at
SyncRc_AlwaysOk(send_ok) == "pcmk_ok"

\* lines 456-461: the status after the send
SyncRc(send_ok) == IF send_ok THEN "pcmk_ok" ELSE "-ENOTCONN"

sync_our_cib(fn, request, all) ==
    /\ UNCHANGED <<based_is_primary, sync_in_progress, the_cib, ignored_diffs>>
    /\ IF SyncInvalid(the_cib, all, request.src)
       THEN last' = Call(fn, [req |-> request, all |-> all], <<>>, "-EINVAL",
                         UNTOUCHED, <<>>, <<>>, <<"err: CRM_CHECK failed">>)
       ELSE \E send_ok \in BOOLEAN :
              last' = Call(fn, [req |-> request, all |-> all],
                           [send_ok |-> send_ok], SyncRc(send_ok), UNTOUCHED,
                           <<Send(SyncPeer(all, request.src),
                                  ReplaceRequest(request, all, the_cib),
                                  FALSE)>>,
                           <<>>, <<"debug: Syncing CIB">>)

\* line 183
cib_process_sync(request) == sync_our_cib("sync", request, TRUE)

\* line 287
cib_process_sync_one(request) == sync_our_cib("sync_one", request, FALSE)

(***************************************************************************)
(* The handlers are called one at a time, in any order.                    *)
(***************************************************************************)
ReadWrite == \E op \in RoleOps : cib_process_readwrite(op)

SyncRequest == \E host \in SrcValues : send_sync_request(host)

Diff == \E options \in OptionSets : cib_server_process_diff(options)

Replace == \E input_name \in InputNames : cib_process_replace_svr(input_name)

Upgrade == \E req \in UpgradeReqs : cib_process_upgrade_server(req)

Next == ReadWrite \/ SyncRequest \/ Diff \/ Replace \/ Upgrade

Spec == Init /\ [][Next]_vars

Shutdown == \E src \in Hosts, is_reply \in BOOLEAN :
                cib_process_shutdown_req(src, is_reply)

Activate == \E doc \in Docs : ActivateCib(doc)

Ping == \E src \in Hosts, seq \in PingIds, tracing \in BOOLEAN :
            cib_process_ping(src, seq, tracing)

SyncAll == \E request \in SyncReqs("cib_sync") : cib_process_sync(request)

SyncOne == \E request \in SyncReqs("cib_sync_one") :
               cib_process_sync_one(request)

\* The handlers of the role and the resync counter together with those that
\* serve the document: shutdown, ping and the two syncs.
ServeNext ==
    \/ ReadWrite \/ SyncRequest \/ Diff \/ Replace
    \/ Shutdown \/ Activate \/ Ping \/ SyncAll \/ SyncOne

ServeSpec == Init /\ [][ServeNext]_vars

\* Every handler.
FullNext == ServeNext \/ Upgrade

FullSpec == Init /\ [][FullNext]_vars

\* The handlers that read or write the role or the resync counter, with
\* diffs that keep arriving: the request router hands every inbound diff to
\* cib_server_process_diff, so a diff that can be handled is handled.
ResyncNext == ReadWrite \/ SyncRequest \/ Diff \/ Replace

LiveSpec == Init /\ [][ResyncNext]_vars /\ WF_vars(Diff)

(***************************************************************************)
(* What the last call did, read off its record.                            *)
(***************************************************************************)
\* the last call was a diff that reached the diff-apply primitive
DiffDelegated ==
    /\ last.op = "diff"
    /\ last.prims = <<Prim("cib_process_diff", NULL)>>

\* the last call was a diff that was ignored
DiffIgnored ==
    /\ last.op = "diff"
    /\ last.prims = <<>>
    /\ last.rc = "-pcmk_err_diff_resync"
    /\ last.log = <<"notice: Not applying diff (sync in progress)">>

\* the last call sent exactly one sync-to-one request, to all peers
OneBroadcastSyncRequest ==
    /\ Len(last.sent) = 1
    /\ last.sent[1].peer = NULL
    /\ last.sent[1].msg.name = "sync-me"
    /\ last.sent[1].msg.cib_op = "cib_sync_one"

\* the counter as a diff leaves it when nothing but lines 297-302 wrote it
CounterAfterEntry ==
    IF last.pre_sync > MAX_DIFF_RETRY THEN 0 ELSE last.pre_sync

\* the last call was phase 1 of an upgrade
UpgradePhase1 == last.op = "upgrade" /\ last.ext.phase = 1

\* ... and the validation found a schema newer than the live document's
FoundNewer ==
    /\ UpgradePhase1
    /\ last.ext.new_version >
         (IF last.ext.value = NULL THEN 0
          ELSE get_schema_version(last.ext.value))

\* the upgrade broadcasts among the messages of the last call
UpgradeBroadcasts ==
    {i \in 1..Len(last.sent) :
        /\ last.sent[i].peer = NULL
        /\ last.sent[i].msg.cib_op = "cib_upgrade"}

\* the calls of the upgrade primitive made by the last call
UpgradeCalls ==
    {i \in 1..Len(last.prims) : last.prims[i].fn = "cib_process_upgrade"}

(***************************************************************************)
(* Claims.                                                                 *)
(***************************************************************************)

\* C1: with the resync counter nonzero (1..MAX_DIFF_RETRY), a diff handled
\* as secondary is rejected with -pcmk_err_diff_resync and never reaches
\* cib_process_diff; the counter leaves the nonzero values only through a
\* successful replace of the whole document or through a diff that found it
\* above MAX_DIFF_RETRY, and such a diff is evaluated by cib_process_diff.
C1_ResyncGate ==
    /\ (last.op = "diff" /\ ~last.pre_primary
          /\ last.pre_sync \in 1..MAX_DIFF_RETRY)
         => (DiffIgnored /\ last.sent = <<>>
               /\ sync_in_progress = last.pre_sync + 1)
    /\ (last.pre_sync # 0 /\ sync_in_progress = 0)
         => \/ /\ last.op = "replace"
               /\ last.rc = "pcmk_ok"
               /\ last.in.input = "cib"
            \/ /\ last.op = "diff"
               /\ last.pre_sync > MAX_DIFF_RETRY
    /\ (last.op = "replace" /\ last.rc = "pcmk_ok" /\ last.in.input = "cib")
         => sync_in_progress = 0
    /\ (last.op = "diff" /\ last.pre_sync > MAX_DIFF_RETRY)
         => (DiffDelegated
               /\ sync_in_progress = IF last.sent = <<>> THEN 0 ELSE 1)

C1_Witness ==
    /\ DiffIgnored
    /\ ~based_is_primary
    /\ last.pre_sync = 3
    /\ sync_in_progress = 4
    /\ ignored_diffs >= 3

\* C2: a diff handled as primary always reaches cib_process_diff, whatever
\* the resync counter: it is not ignored and the counter is not incremented.
C2_PrimaryNeverIgnores ==
    (last.op = "diff" /\ last.pre_primary)
      => /\ DiffDelegated
         /\ ~DiffIgnored
         /\ sync_in_progress = CounterAfterEntry
         /\ sync_in_progress <= last.pre_sync

C2_Witness ==
    /\ DiffDelegated
    /\ last.pre_primary
    /\ last.pre_sync = 3
    /\ sync_in_progress = 3

\* C3: after a resync request a secondary ignores at most MAX_DIFF_RETRY
\* diffs; the diff that finds the counter above the ceiling is delegated to
\* cib_process_diff; and when diffs keep arriving, a diff is evaluated again
\* and again unless resync requests keep being issued.
C3_IgnoreIsBounded ==
    /\ [](ignored_diffs <= MAX_DIFF_RETRY)
    /\ [](sync_in_progress > 0 => ignored_diffs = sync_in_progress - 1)
    /\ []((last.op = "diff" /\ ~last.pre_primary
             /\ last.pre_sync = MAX_DIFF_RETRY + 1) => DiffDelegated)
    /\ ([]<>DiffDelegated \/ []<><<SyncRequest>>_vars)

C3_Witness ==
    /\ DiffDelegated
    /\ ~last.pre_primary
    /\ last.pre_sync = MAX_DIFF_RETRY + 1
    /\ sync_in_progress = 0

\* C4: cib_process_replace_svr returns the replace primitive's status, and
\* sets the resync counter to 0 when that status is success and the input
\* is a "cib" element; otherwise it leaves the counter as it was.
C4_ReplaceClearsCounter ==
    last.op = "replace"
      => /\ last.rc = last.ext.rc
         /\ sync_in_progress =
              IF last.ext.rc = "pcmk_ok" /\ last.in.input = "cib" THEN 0
              ELSE last.pre_sync

C4_Witness ==
    /\ last.op = "replace"
    /\ last.pre_sync = 3
    /\ last.ext.rc = "pcmk_ok"
    /\ last.in.input = "cib"
    /\ sync_in_progress = 0

\* C5: when cib_process_diff reports -pcmk_err_diff_resync to a secondary,
\* the handler returns no new document, sends exactly one sync-to-one
\* request to all peers, leaves the counter at 1 and returns
\* -pcmk_err_diff_resync; send_sync_request sets the counter to 1 whatever
\* it was.
C5_SecondaryAsksForResync ==
    /\ (DiffDelegated /\ ~last.pre_primary
          /\ last.ext.rc = "-pcmk_err_diff_resync")
         => /\ last.result_cib = NULL
            /\ OneBroadcastSyncRequest
            /\ sync_in_progress = 1
            /\ last.rc = "-pcmk_err_diff_resync"
    /\ last.op = "send_sync_request"
         => /\ sync_in_progress = 1
            /\ Len(last.sent) = 1
            /\ last.sent[1].peer = last.in.host

C5_Witness ==
    /\ DiffDelegated
    /\ ~last.pre_primary
    /\ last.pre_sync = MAX_DIFF_RETRY + 1
    /\ last.ext.rc = "-pcmk_err_diff_resync"
    /\ last.ext.result_cib = "doc"
    /\ sync_in_progress = 1

\* C6: when cib_process_diff reports -pcmk_err_diff_resync to a primary,
\* the handler returns -pcmk_err_diff_failed; and no diff handled as primary
\* sends a message or sets the counter to 1, whatever the outcome and the
\* cib_force_diff option.
C6_PrimaryNeverAsksForResync ==
    (last.op = "diff" /\ last.pre_primary)
      => /\ last.sent = <<>>
         /\ sync_in_progress = CounterAfterEntry
         /\ last.ext.rc = "-pcmk_err_diff_resync"
              => last.rc = "-pcmk_err_diff_failed"

C6_Witness ==
    /\ DiffDelegated
    /\ last.pre_primary
    /\ last.pre_sync = 0
    /\ "cib_force_diff" \in last.in.options
    /\ last.ext.rc = "-pcmk_err_diff_resync"
    /\ last.rc = "-pcmk_err_diff_failed"
    /\ sync_in_progress = 0

\* C7: for an outcome of cib_process_diff other than -pcmk_err_diff_resync:
\* a failure on a secondary in legacy mode returns no new document, sends
\* one sync-to-one request to all peers, sets the counter to 1 and returns
\* the primitive's status; a success, and any failure on a primary, returns
\* the primitive's status and document, sends nothing and leaves the counter
\* as it was after entry.
C7_OtherOutcomes ==
    (DiffDelegated /\ last.ext.rc # "-pcmk_err_diff_resync")
      => /\ (last.ext.rc # "pcmk_ok" /\ ~last.pre_primary /\ last.ext.legacy)
              => /\ last.result_cib = NULL
                 /\ OneBroadcastSyncRequest
                 /\ sync_in_progress = 1
                 /\ last.rc = last.ext.rc
         /\ (last.ext.rc = "pcmk_ok" \/ last.pre_primary)
              => /\ last.rc = last.ext.rc
                 /\ last.result_cib = last.ext.result_cib
                 /\ last.sent = <<>>
                 /\ sync_in_progress = CounterAfterEntry

C7_Witness ==
    /\ DiffDelegated
    /\ ~last.pre_primary
    /\ last.ext.legacy
    /\ last.ext.rc = "-pcmk_err_old_data"
    /\ last.ext.result_cib = "doc"
    /\ last.result_cib = NULL
    /\ last.rc = "-pcmk_err_old_data"
    /\ sync_in_progress = 1

\* C8: in phase 1 of an upgrade, when a newer schema was found, the handler
\* makes either one broadcast of an upgrade message that names that schema
\* as the maximum schema and no call of cib_process_upgrade, or (in legacy
\* mode, as primary) one call of cib_process_upgrade with that message and
\* no broadcast.
C8_BroadcastOrApply ==
    FoundNewer
      => LET direct == last.ext.legacy /\ last.pre_primary
             name == SchemaNames[last.ext.new_version + 1]
         IN
         /\ Cardinality(UpgradeBroadcasts) + Cardinality(UpgradeCalls) = 1
         /\ direct
              => /\ Cardinality(UpgradeCalls) = 1
                 /\ last.prims[1].req.cib_op = "cib_upgrade"
                 /\ last.prims[1].req.cib_schema_max = name
         /\ ~direct
              => /\ Cardinality(UpgradeBroadcasts) = 1
                 /\ last.sent[1].peer = NULL
                 /\ last.sent[1].msg.cib_schema_max = name

C8_Witness ==
    /\ FoundNewer
    /\ last.pre_primary
    /\ last.ext.legacy
    /\ last.ext.new_version = 2
    /\ Cardinality(UpgradeCalls) = 1
    /\ Cardinality(UpgradeBroadcasts) = 0

\* C9, as claimed: in phase 1, when a newer schema was found, the result is
\* success on the broadcast path and on the direct path alike.
C9_AlwaysSuccess == FoundNewer => last.rc = "pcmk_ok"

\* C9, amended: in phase 1, when a newer schema was found, the result is
\* success on the broadcast path whatever the validation returned, and it
\* is the status of cib_process_upgrade on the direct (legacy, primary)
\* path.
C9_SuccessOrPrimitiveStatus ==
    FoundNewer
      => IF last.ext.legacy /\ last.pre_primary
         THEN last.rc = last.ext.up_rc
         ELSE last.rc = "pcmk_ok"

C9_Witness ==
    /\ FoundNewer
    /\ last.ext.v_rc # "pcmk_ok"
    /\ ~last.pre_primary
    /\ Cardinality(UpgradeBroadcasts) = 1
    /\ last.rc = "pcmk_ok"

\* C10, as claimed: in phase 1, when no newer schema was found, the result
\* is -pcmk_err_schema_unchanged and no upgrade is broadcast or applied.
C10_AlwaysUnchanged ==
    (UpgradePhase1 /\ ~FoundNewer)
      => /\ last.rc = "-pcmk_err_schema_unchanged"
         /\ UpgradeBroadcasts = {}
         /\ UpgradeCalls = {}

\* C10, amended: in phase 1, when no newer schema was found, the result is
\* -pcmk_err_schema_unchanged if the validation returned success and the
\* validation's own error otherwise; no upgrade is broadcast or applied.
C10_UnchangedOrValidationError ==
    (UpgradePhase1 /\ ~FoundNewer)
      => /\ last.rc = IF last.ext.v_rc = "pcmk_ok"
                      THEN "-pcmk_err_schema_unchanged"
                      ELSE last.ext.v_rc
         /\ last.rc # "pcmk_ok"
         /\ UpgradeBroadcasts = {}
         /\ UpgradeCalls = {}

C10_Witness ==
    /\ UpgradePhase1
    /\ ~FoundNewer
    /\ last.ext.v_rc = "-pcmk_err_schema_validation"
    /\ last.rc = "-pcmk_err_schema_validation"

\* the rejection replies among the messages of the last call
RejectReplies ==
    {i \in 1..Len(last.sent) :
        /\ last.sent[i].peer # NULL
        /\ last.sent[i].msg.cib_op = "cib_upgrade"}

\* the last call looked the requesting peer up and found it
PeerFound == "found" \in DOMAIN last.ext /\ last.ext.found

\* C11: in phase 1 of an upgrade, a rejection reply goes to the requesting
\* peer exactly when the result is not success and the peer is in the
\* membership cache; the reply has operation "cib_upgrade", is marked as a
\* reply to the peer and carries the result and the request's client id,
\* call options and call id; the handler returns the error either way.
C11_RejectionReply ==
    UpgradePhase1
      => /\ (RejectReplies # {}) <=> (last.rc # "pcmk_ok" /\ PeerFound)
         /\ Cardinality(RejectReplies) <= 1
         /\ \A i \in RejectReplies :
              /\ i = Len(last.sent)
              /\ last.sent[i].peer = last.in.req.src
              /\ last.sent[i].msg.cib_isreplyto = last.in.req.src
              /\ last.sent[i].msg.cib_upgrade_rc = last.rc
              /\ last.sent[i].msg.cib_clientid = last.in.req.cib_clientid
              /\ last.sent[i].msg.cib_callopt = last.in.req.cib_callopt
              /\ last.sent[i].msg.cib_callid = last.in.req.cib_callid

C11_Witness ==
    /\ UpgradePhase1
    /\ last.rc = "-pcmk_err_schema_unchanged"
    /\ PeerFound
    /\ last.in.req.cib_clientid = "client1"
    /\ Cardinality(RejectReplies) = 1
    /\ last.sent[1].msg.cib_upgrade_rc = "-pcmk_err_schema_unchanged"

\* C12: a request that carries the maximum-schema field is handed to
\* cib_process_upgrade and nothing else: the result is that primitive's, no
\* message is sent; and every upgrade broadcast of phase 1 carries the
\* field, so the nodes that receive it do not broadcast again.
C12_Phase2OnlyDelegates ==
    /\ (last.op = "upgrade" /\ last.in.req.cib_schema_max # NULL)
         => /\ last.sent = <<>>
            /\ last.prims = <<Prim("cib_process_upgrade", last.in.req)>>
            /\ last.rc = last.ext.up_rc
    /\ last.op = "upgrade"
         => \A i \in UpgradeBroadcasts :
              last.sent[i].msg.cib_schema_max # NULL

C12_Witness ==
    /\ last.op = "upgrade"
    /\ last.in.req.cib_schema_max # NULL
    /\ last.ext.up_rc = "-pcmk_err_schema_validation"
    /\ last.rc = "-pcmk_err_schema_validation"
    /\ last.sent = <<>>

\* C13: the "is primary" query returns success when the node is primary and
\* -EPERM when it is not, and leaves the role, the resync counter and the
\* document as they were.
C13_QueryIsPrimary ==
    (last.op = "readwrite" /\ last.in.op = "cib_isprimary")
      => /\ last.rc = IF last.pre_primary THEN "pcmk_ok" ELSE "-EPERM"
         /\ based_is_primary = last.pre_primary
         /\ sync_in_progress = last.pre_sync
         /\ the_cib = last.pre_cib

C13_Witness ==
    /\ last.op = "readwrite"
    /\ last.in.op = "cib_isprimary"
    /\ ~based_is_primary
    /\ last.rc = "-EPERM"
    /\ sync_in_progress = 2

\* C14: the role is FALSE at the start; a role request other than the query
\* leaves the role TRUE exactly when it was "become primary" and reports
\* success; every other call leaves the role as it was (so the role is that
\* of the most recent such request); "become primary" on a primary changes
\* nothing, logs no transition and reports success.
C14_RoleFollowsLastRequest ==
    /\ last.op = "none" => ~based_is_primary
    /\ (last.op = "readwrite" /\ last.in.op # "cib_isprimary")
         => /\ based_is_primary = (last.in.op = "cib_primary")
            /\ last.rc = "pcmk_ok"
    /\ ~(last.op = "readwrite" /\ last.in.op # "cib_isprimary")
         => based_is_primary = last.pre_primary
    /\ (last.op = "readwrite" /\ last.in.op = "cib_primary"
          /\ last.pre_primary)
         => /\ based_is_primary
            /\ last.rc = "pcmk_ok"
            /\ \A i \in 1..Len(last.log) :
                 last.log[i] # "info: We are now in R/W mode"
    /\ (last.op = "readwrite" /\ last.in.op = "cib_primary"
          /\ ~last.pre_primary)
         => last.log = <<"info: We are now in R/W mode">>

C14_Witness ==
    /\ last.op = "readwrite"
    /\ last.in.op = "cib_primary"
    /\ last.pre_primary
    /\ based_is_primary
    /\ last.rc = "pcmk_ok"
    /\ last.log = <<"debug: We are still in R/W mode">>

\* the last call was one of the two sync handlers
SyncCall == last.op \in {"sync", "sync_one"}

\* the last call left the role, the resync counter and the document alone
StateUntouched ==
    /\ based_is_primary = last.pre_primary
    /\ sync_in_progress = last.pre_sync
    /\ the_cib = last.pre_cib

\* C15: a shutdown message that is not a reply is accepted with success and
\* nothing is done; a reply while cib_shutdown_flag is not set fails with
\* -EINVAL and does not terminate; a reply while it is set calls
\* terminate_cib and returns success.
C15_Shutdown ==
    last.op = "shutdown"
      => /\ ~last.in.is_reply
              => (last.rc = "pcmk_ok" /\ last.prims = <<>>)
         /\ (last.in.is_reply /\ ~last.ext.cib_shutdown_flag)
              => (last.rc = "-EINVAL" /\ last.prims = <<>>)
         /\ (last.in.is_reply /\ last.ext.cib_shutdown_flag)
              => /\ last.rc = "pcmk_ok"
                 /\ last.prims = <<Prim("terminate_cib", NULL)>>
         /\ last.sent = <<>>
         /\ StateUntouched

C15_Witness ==
    /\ last.op = "shutdown"
    /\ last.in.is_reply
    /\ last.ext.cib_shutdown_flag
    /\ last.rc = "pcmk_ok"
    /\ Len(last.prims) = 1

\* C16: sync_our_cib returns -EINVAL and sends nothing when there is no
\* document, or when it is not broadcasting and the request names no source
\* host; otherwise it sends one "cib_replace" message with the document and
\* its digest, to the source host, or to all peers and without the
\* destination-host field when broadcasting, and returns -ENOTCONN exactly
\* when the send failed.  The role, the counter and the document stay.
C16_SyncOurCib ==
    SyncCall
      => LET all == last.in.all
             host == last.in.req.src
             invalid == last.pre_cib = NULL \/ (~all /\ host = NULL)
         IN
         /\ all = (last.op = "sync")
         /\ invalid => (last.rc = "-EINVAL" /\ last.sent = <<>>)
         /\ ~invalid
              => /\ Len(last.sent) = 1
                 /\ last.sent[1].peer = IF all THEN NULL ELSE host
                 /\ last.sent[1].msg.cib_op = "cib_replace"
                 /\ last.sent[1].msg.cib_calldata = last.pre_cib
                 /\ last.sent[1].msg.digest = Digest(last.pre_cib)
                 /\ all => "cib_host" \notin DOMAIN last.sent[1].msg
                 /\ last.rc = IF last.ext.send_ok THEN "pcmk_ok"
                              ELSE "-ENOTCONN"
         /\ StateUntouched

C16_Witness ==
    /\ last.op = "sync_one"
    /\ last.in.req.src # NULL
    /\ last.pre_cib = "cib2"
    /\ ~last.ext.send_ok
    /\ last.rc = "-ENOTCONN"
    /\ last.sent[1].peer = last.in.req.src
    /\ last.sent[1].msg.cib_calldata = "cib2"

\* a send of the last call could not be delivered
SomeSendFailed ==
    \/ "send_ok" \in DOMAIN last.ext /\ ~last.ext.send_ok
    \/ "bcast_ok" \in DOMAIN last.ext /\ ~last.ext.bcast_ok

\* C17, as claimed: every send that fails is reported to the caller as a
\* failure status.
C17_EveryFailureReported ==
    SomeSendFailed => last.rc \notin {"pcmk_ok", VOID}

\* C17, amended: only sync_our_cib reports a failed send (-ENOTCONN);
\* send_sync_request returns nothing and a diff that asked for a resync
\* returns the diff primitive's status; a failed upgrade broadcast leaves
\* the result success; a failed rejection reply is logged as a warning and
\* the result stays the rejection status; no call sends a message twice.
C17_OnlySyncReportsFailure ==
    /\ (SyncCall /\ last.sent # <<>>)
         => (last.rc = "-ENOTCONN") = ~last.ext.send_ok
    /\ last.op = "send_sync_request" => last.rc = VOID
    /\ (last.op = "diff" /\ last.sent # <<>>) => last.rc = last.ext.rc
    /\ (last.op = "upgrade" /\ UpgradeBroadcasts # {})
         => last.rc = "pcmk_ok"
    /\ (last.op = "upgrade" /\ RejectReplies # {})
         => /\ last.rc = last.sent[Len(last.sent)].msg.cib_upgrade_rc
            /\ last.rc \notin {"pcmk_ok", "-ENOTCONN"}
            /\ ~last.ext.send_ok
                 => last.log[Len(last.log)] =
                      "warn: Could not send CIB upgrade result"
    /\ \A i, j \in 1..Len(last.sent) :
         i # j => last.sent[i] # last.sent[j]

C17_Witness ==
    /\ FoundNewer
    /\ Cardinality(UpgradeBroadcasts) = 1
    /\ ~last.ext.bcast_ok
    /\ last.rc = "pcmk_ok"

\* C18: cib_process_ping returns success, sends nothing, calls no primitive
\* and leaves the role, the counter and the document alone; its answer
\* echoes the request's sequence number; and two pings in a row on the same
\* document answer with the same digest.
C18_PingIsPure ==
    /\ [](last.op = "ping"
            => /\ last.rc = "pcmk_ok"
               /\ last.sent = <<>>
               /\ last.prims = <<>>
               /\ StateUntouched
               /\ last.answer.cib_ping_id = last.in.seq)
    /\ [][(last.op = "ping" /\ last'.op = "ping"
             /\ last.pre_cib = last'.pre_cib)
            => last'.answer.digest = last.answer.digest]_vars

C18_Witness ==
    /\ last.op = "ping"
    /\ last.pre_cib = "cib2"
    /\ the_cib = "cib2"
    /\ last.in.seq = "2"
    /\ last.answer.cib_ping_id = "2"
    /\ sync_in_progress = 2

\* C19: the resync counter stays within 0..MAX_DIFF_RETRY + 1: a call
\* leaves it as it was, sets it to 0 or to 1, or is an ignored diff, which
\* found it within 1..MAX_DIFF_RETRY and added one.
C19_CounterRange ==
    /\ sync_in_progress \in 0..(MAX_DIFF_RETRY + 1)
    /\ DiffIgnored
         => /\ last.pre_sync \in 1..MAX_DIFF_RETRY
            /\ sync_in_progress = last.pre_sync + 1
    /\ ~DiffIgnored
         => sync_in_progress \in {last.pre_sync, 0, 1}

C19_Witness ==
    /\ DiffIgnored
    /\ last.pre_sync = MAX_DIFF_RETRY
    /\ sync_in_progress = MAX_DIFF_RETRY + 1
    /\ the_cib # NULL

\* C20: a role request leaves the resync counter as it was, and so does a
\* diff handled as primary that found it within 1..MAX_DIFF_RETRY, even
\* when the diff was applied with success; a secondary that finds it within
\* 1..MAX_DIFF_RETRY ignores the diff.
C20_RoleChangeKeepsCounter ==
    /\ last.op = "readwrite" => sync_in_progress = last.pre_sync
    /\ (last.op = "diff" /\ last.pre_primary
          /\ last.pre_sync \in 1..MAX_DIFF_RETRY)
         => (DiffDelegated /\ sync_in_progress = last.pre_sync)
    /\ (last.op = "diff" /\ ~last.pre_primary
          /\ last.pre_sync \in 1..MAX_DIFF_RETRY)
         => DiffIgnored

C20_Witness ==
    /\ DiffDelegated
    /\ last.pre_primary
    /\ last.ext.rc = "pcmk_ok"
    /\ last.pre_sync = 4
    /\ sync_in_progress = 4
    /\ ignored_diffs = 3

\* the node is a secondary, the last call was no replace, and the diff-apply
\* primitive, when reached, reported that a resync is needed
StaleSecondary ==
    /\ ~based_is_primary
    /\ last.op # "replace"
    /\ DiffDelegated => last.ext.rc = "-pcmk_err_diff_resync"

\* a diff call that reached the primitive and sent a broadcast sync request
DiffAsksAgain == Diff /\ (DiffDelegated /\ OneBroadcastSyncRequest)'

\* C21: a secondary diff that finds the counter above the ceiling is
\* delegated and, when the primitive reports that a resync is needed, sends
\* one broadcast sync request and sets the counter to 1; at most
\* MAX_DIFF_RETRY diffs are ignored in a row; so, with diffs arriving
\* forever at a node that from some point on stays secondary, sees no
\* replace and whose diffs cannot be applied, a sync request is sent again
\* and again.
C21_LostResyncReissued ==
    /\ []((last.op = "diff" /\ ~last.pre_primary
             /\ last.pre_sync = MAX_DIFF_RETRY + 1)
            => /\ DiffDelegated
               /\ last.ext.rc = "-pcmk_err_diff_resync"
                    => /\ OneBroadcastSyncRequest
                       /\ sync_in_progress = 1
                       /\ ignored_diffs = 0)
    /\ [](DiffIgnored => ignored_diffs \in 1..MAX_DIFF_RETRY)
    /\ (<>[]StaleSecondary
          => ([]<><<DiffAsksAgain>>_vars \/ []<><<SyncRequest>>_vars))

C21_Witness ==
    /\ DiffDelegated
    /\ ~last.pre_primary
    /\ last.pre_sync = MAX_DIFF_RETRY + 1
    /\ last.ext.rc = "-pcmk_err_diff_resync"
    /\ ~last.ext.send_ok
    /\ OneBroadcastSyncRequest
    /\ sync_in_progress = 1
    /\ ignored_diffs = 0

====
